---- MODULE Spec2Model ----
(***************************************************************************)
(* SmartPaddy: the irrigation advice card (IrrigationAdvice), the crop     *)
(* stage lookup of the dashboard (getCropInfo), the water-level chart's    *)
(* range selection (WaterLevelChart.chartData) and the dashboard's data    *)
(* refresh (App.loadData).                                                 *)
(*                                                                         *)
(* An optional value (null / undefined in the source) is a sequence of     *)
(* length 0, a present value v is <<v>>.                                   *)
(***************************************************************************)
EXTENDS Integers, Sequences, FiniteSets, TLC

VARIABLES
    \* ---- IrrigationAdvice (one card) ----
    level,          \* props.level
    weather,        \* props.weather: None or Some(WeatherData)
    cropItem,       \* localStorage item crop_<id>: None, Some(Corrupt) or Some(plan)
    stageTable,     \* the stage durations calculateStage walks
    nowDay,         \* the day calculateStage reads as "now"
    showRationale,  \* useState(false)
    advice,         \* the card's `let advice`
    apc,            \* "mounting" before the first render, "rendered" after one
    \* ---- WaterLevelChart ----
    data,           \* props.data: sequence of {time, level}
    range,          \* useState<TimeRange>('24h')
    customStart,    \* useState('') : None or Some(day)
    customEnd,      \* useState('') : None or Some(day)
    now,            \* the last value Date.now() returned
    tzOffset,       \* local time minus UTC, in ms (fixed for a run)
    chartData,      \* the memoised chartData
    cpc,            \* "mounting" before the first render, "rendered" after one
    \* ---- dashboard list ----
    cropInfo,       \* const cropInfo = getCropInfo(sensor.id) of the last render
    \* ---- App (data refresh) ----
    loading,        \* useState(true)
    error,          \* useState<string | null>(null)
    sensors,        \* useState<SensorData[]>([])
    gateway,        \* useState<GatewayStatus | null>(null)
    logs,           \* useState<SheetRow[]>([])
    selectedSensor, \* useState<SensorData | null>(null)
    lastRefreshed,  \* useState<Date>(new Date()), in timer periods
    isRearranging,  \* useState(false)
    savedNames,     \* localStorage item sensor_custom_names: id -> name, "" if none
    sensorOrder,    \* localStorage item sensorOrder: None or Some(list of ids)
    sheet,          \* what the sheet holds now: its version and its sensor ids
    inflight,       \* the loadData calls awaiting fetchSensorData
    nextReq,        \* the number the next loadData call gets
    clock,          \* timer periods elapsed since mount
    completed,      \* history: the successful fetches in the order they were applied
    appc            \* "unmounted", "constructed" (before useEffect) or "mounted"

adviceVars == <<level, weather, cropItem, stageTable, nowDay, showRationale, advice, apc>>
chartVars == <<data, range, customStart, customEnd, now, tzOffset, chartData, cpc>>
stageVars == <<cropInfo>>
appVars ==
    <<loading, error, sensors, gateway, logs, selectedSensor, lastRefreshed, isRearranging,
      savedNames, sensorOrder, sheet, inflight, nextReq, clock, completed, appc>>
vars == <<adviceVars, chartVars, stageVars, appVars>>

None == <<>>
Some(v) == <<v>>
IsSome(o) == Len(o) = 1
Get(o) == o[1]

(***************************************************************************)
(* Bounds of the model.                                                    *)
(***************************************************************************)
MaxLevel == 100
MaxDay == 9
MaxDuration == 1
MaxReadings == 2
ChartToday == 40
MaxStageDuration == 2
MaxStageDay == 17

Levels == (0 - MaxLevel)..MaxLevel

(***************************************************************************)
(* IrrigationAdvice: constants and thresholds.                             *)
(***************************************************************************)
SOIL_LEVEL == 15
THRESHOLD_LOW == 5
THRESHOLD_HIGH == 20
RAIN_CHANCE_LIMIT == 50
RAIN_VOLUME_LIMIT == 5
HEAT_LIMIT == 35
DEFAULT_STAGE_INDEX == 1
DEFAULT_STAGE_NAME == "Vegetative"

NeedsFloodStages == {0, 3, 4}
\* Mutant: the grain filling stage left out of the drying list.
AllowAWDStages_noFilling == {1, 2}
AllowAWDStages == {1, 2, 5}
\* Mutant: the ripening stage left out of the drain list.
NeedsDrainStages_harvestOnly == {7}
NeedsDrainStages == {6, 7}

\* A template literal: the text with its ${...} holes, the numbers and the
\* strings interpolated into the holes, in order.
Text(fmt, nums, strs) == [fmt |-> fmt, nums |-> nums, strs |-> strs]
Lit(s) == Text(s, <<>>, <<>>)

\* weather?.rainChance || 0
rainChance(w) == IF IsSome(w) /\ Get(w).rainChance # 0 THEN Get(w).rainChance ELSE 0
\* weather?.rainForecast24h || 0
rainForecast(w) ==
    IF IsSome(w) /\ Get(w).rainForecast24h # 0 THEN Get(w).rainForecast24h ELSE 0
\* weather?.temp || 0
tempOrZero(w) == IF IsSome(w) /\ Get(w).temp # 0 THEN Get(w).temp ELSE 0

\* Mutant: the limits taken inclusively.
isRainExpected_inclusive(w) ==
    rainChance(w) >= RAIN_CHANCE_LIMIT \/ rainForecast(w) >= RAIN_VOLUME_LIMIT
isRainExpected(w) == rainChance(w) > RAIN_CHANCE_LIMIT \/ rainForecast(w) > RAIN_VOLUME_LIMIT
\* Mutant: the heat limit itself counts as high heat.
isHighHeat_inclusive(w) == tempOrZero(w) >= HEAT_LIMIT
isHighHeat(w) == tempOrZero(w) > HEAT_LIMIT

\* let advice = { type: 'good', text: 'Levels Optimal', ... }
\* The numeric placeholders of each template literal of the card, in order.
NumHoles(fmt) ==
    CASE fmt = "Rain chance ${rainChance}%." -> <<"rainChance">>
      [] fmt = "Current Gauge: ${level}cm. With ${rainForecast}mm rain forecast, delay irrigation to save water."
            -> <<"level", "rainForecast">>
      [] fmt = "Level ${level}cm (Low)" -> <<"level">>
      [] fmt = "Gauge reads ${level}cm, which is critically low (<${THRESHOLD_LOW}cm) for ${stageName}. Risk of soil cracking."
            -> <<"level", "THRESHOLD_LOW">>
      [] fmt = "Gauge is at ${level}cm. Rain will increase this further. Drain to ~15cm to prevent overflow."
            -> <<"level">>
      [] fmt = "Level ${level}cm (High)" -> <<"level">>
      [] fmt = "Water is deep (Gauge >${THRESHOLD_HIGH}cm). Further irrigation is wasteful."
            -> <<"THRESHOLD_HIGH">>
      [] fmt = "Gauge (${level}cm) is below soil surface, but rain is likely." -> <<"level">>
      [] fmt = "Gauge level (${level}cm) is ideal for ${stageName}." -> <<"level">>
      [] OTHER -> <<>>

\* The numbers each rationale string of the card spells out itself.
LiteralNumbers(fmt) ==
    CASE fmt = "Field should be dry (Gauge <15cm) for ripening." -> {15}
      [] fmt = "Gauge is at ${level}cm. Rain will increase this further. Drain to ~15cm to prevent overflow."
            -> {15}
      [] fmt = "Stage ${stageName} requires standing water (Gauge >15cm)." -> {15}
      [] fmt = "Water is below soil surface (Gauge <15cm) but safe. Promotes root depth." -> {15}
      [] fmt = "Water availability is adequate (Gauge >15cm)." -> {15}
      [] OTHER -> {}

InitialAdvice ==
    [type |-> "good", text |-> "Levels Optimal", subtext |-> Lit("Monitoring..."),
     rationale |-> Lit("Water levels are within the target range."),
     smartTip |-> None, icon |-> "Check"]

setAdvice(type, text, subtext, rationale, tip, icon) ==
    [type |-> type, text |-> text, subtext |-> subtext, rationale |-> rationale,
     smartTip |-> tip, icon |-> icon]

\* Mutant: low water always asks for irrigation, rain or not.
adviseLowWater_noRainCheck(l, w, stageName) ==
    setAdvice("critical", "Irrigate Now",
              Text("Level ${level}cm (Low)", <<l>>, <<>>),
              Text("Gauge reads ${level}cm, which is critically low (<${THRESHOLD_LOW}cm) for ${stageName}. Risk of soil cracking.",
                   <<l, THRESHOLD_LOW>>, <<stageName>>),
              Some("Fill to Gauge 15cm+ (Soil Surface) immediately."),
              "Droplets")
adviseLowWater(l, w, stageName) ==
    IF isRainExpected(w)
    THEN setAdvice("warn", "Wait for Rain",
                   Text("Rain chance ${rainChance}%.", <<rainChance(w)>>, <<>>),
                   Text("Current Gauge: ${level}cm. With ${rainForecast}mm rain forecast, delay irrigation to save water.",
                        <<l, rainForecast(w)>>, <<>>),
                   Some("Monitor level closely. If rain misses, irrigate."),
                   "CloudRain")
    ELSE setAdvice("critical", "Irrigate Now",
                   Text("Level ${level}cm (Low)", <<l>>, <<>>),
                   Text("Gauge reads ${level}cm, which is critically low (<${THRESHOLD_LOW}cm) for ${stageName}. Risk of soil cracking.",
                        <<l, THRESHOLD_LOW>>, <<stageName>>),
                   Some("Fill to Gauge 15cm+ (Soil Surface) immediately."),
                   "Droplets")

\* Mutant: the "Stop Irrigating" rationale written without its threshold.
adviseHighWater_noThreshold(l, w) ==
    IF isRainExpected(w)
    THEN setAdvice("warn", "Drain Excess",
                   Lit("Rain Expected."),
                   Text("Gauge is at ${level}cm. Rain will increase this further. Drain to ~15cm to prevent overflow.",
                        <<l>>, <<>>),
                   Some("Lower spillways to 15cm level."),
                   "ArrowDown")
    ELSE setAdvice("info", "Stop Irrigating",
                   Text("Level ${level}cm (High)", <<l>>, <<>>),
                   Lit("Water is deep. Further irrigation is wasteful."),
                   Some("Allow water to subside naturally."),
                   "ArrowDown")
adviseHighWater(l, w) ==
    IF isRainExpected(w)
    THEN setAdvice("warn", "Drain Excess",
                   Lit("Rain Expected."),
                   Text("Gauge is at ${level}cm. Rain will increase this further. Drain to ~15cm to prevent overflow.",
                        <<l>>, <<>>),
                   Some("Lower spillways to 15cm level."),
                   "ArrowDown")
    ELSE setAdvice("info", "Stop Irrigating",
                   Text("Level ${level}cm (High)", <<l>>, <<>>),
                   Text("Water is deep (Gauge >${THRESHOLD_HIGH}cm). Further irrigation is wasteful.",
                        <<THRESHOLD_HIGH>>, <<>>),
                   Some("Allow water to subside naturally."),
                   "ArrowDown")

\* Mutant: an unknown stage treated as Establishment (0).
stageIndexOf_defaultZero(c) == IF IsSome(c) THEN Get(c).index ELSE 0
\* cropStage?.index ?? 1
stageIndexOf(c) == IF IsSome(c) THEN Get(c).index ELSE DEFAULT_STAGE_INDEX
\* cropStage?.name ?? "Vegetative"
stageNameOf(c) == IF IsSome(c) THEN Get(c).name ELSE DEFAULT_STAGE_NAME

needsFlood(c) == stageIndexOf(c) \in NeedsFloodStages
allowAWD(c) == stageIndexOf(c) \in AllowAWDStages
needsDrain(c) == stageIndexOf(c) \in NeedsDrainStages

\* PRIORITY 1: harvest / drain stages
adviseDrainStage(l) ==
    IF l > SOIL_LEVEL
    THEN setAdvice("warn", "Drain Field", Lit("Prepare harvest."),
                   Lit("Field should be dry (Gauge <15cm) for ripening."),
                   Some("Open all drainage outlets."), "ArrowDown")
    ELSE setAdvice("good", "Ready", Lit("Field dry."),
                   Lit("Conditions optimal for harvest."), None, "Sprout")

\* Mutant: the soil surface itself counted as below it.
adviseFloodStage_strict(l, w, c) ==
    IF l <= SOIL_LEVEL
    THEN IF isRainExpected(w)
         THEN setAdvice("warn", "Wait for Rain",
                        Text("Rain chance ${rainChance}%.", <<rainChance(w)>>, <<>>),
                        Text("Gauge (${level}cm) is below soil surface, but rain is likely.",
                             <<l>>, <<>>),
                        None, "CloudRain")
         ELSE setAdvice("warn", "Increase Level", Lit("Target Gauge 15cm+."),
                        Text("Stage ${stageName} requires standing water (Gauge >15cm).",
                             <<>>, <<stageNameOf(c)>>),
                        Some("Top up to 17-18cm."), "Droplets")
    ELSE setAdvice("good", "Optimal Flood", Lit("Maintained."),
                   Text("Gauge level (${level}cm) is ideal for ${stageName}.",
                        <<l>>, <<stageNameOf(c)>>),
                   IF isHighHeat(w) THEN Some("Flood helps cool the canopy.") ELSE None,
                   "Check")

\* PRIORITY 4 A: stages requiring flood, level in 5..20
adviseFloodStage(l, w, c) ==
    IF l < SOIL_LEVEL
    THEN IF isRainExpected(w)
         THEN setAdvice("warn", "Wait for Rain",
                        Text("Rain chance ${rainChance}%.", <<rainChance(w)>>, <<>>),
                        Text("Gauge (${level}cm) is below soil surface, but rain is likely.",
                             <<l>>, <<>>),
                        None, "CloudRain")
         ELSE setAdvice("warn", "Increase Level", Lit("Target Gauge 15cm+."),
                        Text("Stage ${stageName} requires standing water (Gauge >15cm).",
                             <<>>, <<stageNameOf(c)>>),
                        Some("Top up to 17-18cm."), "Droplets")
    ELSE setAdvice("good", "Optimal Flood", Lit("Maintained."),
                   Text("Gauge level (${level}cm) is ideal for ${stageName}.",
                        <<l>>, <<stageNameOf(c)>>),
                   IF isHighHeat(w) THEN Some("Flood helps cool the canopy.") ELSE None,
                   "Check")

\* Mutant: the soil surface itself counted as the drying zone.
adviseAWDStage_strict(l) ==
    IF l <= SOIL_LEVEL
    THEN setAdvice("info", "AWD Active", Lit("Soil drying."),
                   Lit("Water is below soil surface (Gauge <15cm) but safe. Promotes root depth."),
                   Some("Monitor for soil cracks."), "ArrowDown")
    ELSE setAdvice("good", "Levels Good", Lit("Saturated."),
                   Lit("Water availability is adequate (Gauge >15cm)."),
                   None, "Check")

\* PRIORITY 4 B: stages allowing AWD, level in 5..20
\* Mutant: the drying zone bounded by the low threshold, not the soil level.
adviseAWDStage_lowThreshold(l) ==
    IF l < THRESHOLD_LOW
    THEN setAdvice("info", "AWD Active", Lit("Soil drying."),
                   Lit("Water is below soil surface (Gauge <15cm) but safe. Promotes root depth."),
                   Some("Monitor for soil cracks."), "ArrowDown")
    ELSE setAdvice("good", "Levels Good", Lit("Saturated."),
                   Lit("Water availability is adequate (Gauge >15cm)."),
                   None, "Check")
adviseAWDStage(l) ==
    IF l < SOIL_LEVEL
    THEN setAdvice("info", "AWD Active", Lit("Soil drying."),
                   Lit("Water is below soil surface (Gauge <15cm) but safe. Promotes root depth."),
                   Some("Monitor for soil cracks."), "ArrowDown")
    ELSE setAdvice("good", "Levels Good", Lit("Saturated."),
                   Lit("Water availability is adequate (Gauge >15cm)."),
                   None, "Check")

\* Mutant: readings outside the gauge (0..30) rejected, no verdict set.
evaluate_validating(l, w, c) ==
    IF l < 0 \/ l > 30 THEN [type |-> "invalid", text |-> ""]
    ELSE IF needsDrain(c) THEN adviseDrainStage(l)
    ELSE IF l > THRESHOLD_HIGH THEN adviseHighWater(l, w)
    ELSE IF l < THRESHOLD_LOW THEN adviseLowWater(l, w, stageNameOf(c))
    ELSE IF needsFlood(c) THEN adviseFloodStage(l, w, c)
    ELSE IF allowAWD(c) THEN adviseAWDStage(l)
    ELSE InitialAdvice

\* Mutant: the high and low water rules tried before the drain stages.
evaluate_waterRulesFirst(l, w, c) ==
    IF l > THRESHOLD_HIGH THEN adviseHighWater(l, w)
    ELSE IF l < THRESHOLD_LOW THEN adviseLowWater(l, w, stageNameOf(c))
    ELSE IF needsDrain(c) THEN adviseDrainStage(l)
    ELSE IF needsFlood(c) THEN adviseFloodStage(l, w, c)
    ELSE IF allowAWD(c) THEN adviseAWDStage(l)
    ELSE InitialAdvice

\* Mutant: the flood stages dispatched before the high water rule.
evaluate_floodStageFirst(l, w, c) ==
    IF needsDrain(c) THEN adviseDrainStage(l)
    ELSE IF l >= THRESHOLD_LOW /\ needsFlood(c) THEN adviseFloodStage(l, w, c)
    ELSE IF l > THRESHOLD_HIGH THEN adviseHighWater(l, w)
    ELSE IF l < THRESHOLD_LOW THEN adviseLowWater(l, w, stageNameOf(c))
    ELSE IF allowAWD(c) THEN adviseAWDStage(l)
    ELSE InitialAdvice

\* evaluate(): the value of `advice` once evaluate() has run.  A stage that
\* matches none of the three lists falls off the end and leaves `advice` as
\* it was initialised.
\* Mutant: the drying stages sent through the rules of the flood stages.
evaluate_awdLikeFlood(l, w, c) ==
    IF needsDrain(c) THEN adviseDrainStage(l)
    ELSE IF l > THRESHOLD_HIGH THEN adviseHighWater(l, w)
    ELSE IF l < THRESHOLD_LOW THEN adviseLowWater(l, w, stageNameOf(c))
    ELSE IF needsFlood(c) \/ allowAWD(c) THEN adviseFloodStage(l, w, c)
    ELSE InitialAdvice

evaluate(l, w, c) ==
    IF needsDrain(c) THEN adviseDrainStage(l)
    ELSE IF l > THRESHOLD_HIGH THEN adviseHighWater(l, w)
    ELSE IF l < THRESHOLD_LOW THEN adviseLowWater(l, w, stageNameOf(c))
    ELSE IF needsFlood(c) THEN adviseFloodStage(l, w, c)
    ELSE IF allowAWD(c) THEN adviseAWDStage(l)
    ELSE InitialAdvice

(***************************************************************************)
(* The crop stage the dashboard hands to the card.                         *)
(***************************************************************************)
NumStages == 8
StageNames ==
    <<"Establishment", "Tillering", "Elongation", "Booting", "Flowering", "Filling",
      "Ripening", "Harvest">>

\* The stage tables of the model: NumStages durations, each 1..MaxDuration days.
StageTables == {[i \in 1..NumStages |-> d] : d \in 1..MaxDuration}

RECURSIVE cumBefore(_, _)
\* Days taken by the stages before stage index i (0-based) of table t.
cumBefore(t, i) == IF i = 0 THEN 0 ELSE cumBefore(t, i - 1) + t[i]

DayMs == 24 * 60 * 60 * 1000
HourMs == 60 * 60 * 1000

\* now - plantingDate in ms: now is midnight of day today, the planting date
\* is plantingMs into day plantingDay.
sincePlanting(plan, today) == (today - plan.plantingDay) * DayMs - plan.plantingMs

\* Mutant: the day count not clamped at zero.
daysElapsed_noClamp(plan, today) == sincePlanting(plan, today) \div DayMs
\* daysElapsed = floor((now - plantingDate) / 1 day), clamped to >= 0
daysElapsed(plan, today) ==
    IF sincePlanting(plan, today) \div DayMs < 0 THEN 0
    ELSE sincePlanting(plan, today) \div DayMs

\* Mutant: past the end of the table the walk starts over instead of clamping.
calculateStage_noClamp(plan, t, today) ==
    LET d == daysElapsed(plan, today)
        hit == {i \in 0..(NumStages - 1) : cumBefore(t, i) <= d /\ d < cumBefore(t, i) + t[i + 1]}
        idx == IF hit = {} THEN 0 ELSE CHOOSE i \in hit : TRUE
    IN  [stageName |-> StageNames[idx + 1], stageIndex |-> idx, days |-> d]

\* Mutant: a stage's last boundary taken inclusively.
calculateStage_inclusive(plan, t, today) ==
    LET d == daysElapsed(plan, today)
        hit == {i \in 0..(NumStages - 1) : cumBefore(t, i) <= d /\ d <= cumBefore(t, i) + t[i + 1]}
        idx == IF hit = {} THEN NumStages - 1
               ELSE CHOOSE i \in hit : \A j \in hit : i <= j
    IN  [stageName |-> StageNames[idx + 1], stageIndex |-> idx, days |-> d]

\* calculateStage(plan): the stage whose [cumBefore, cumBefore + duration)
\* holds daysElapsed, the last stage once the table is used up.
calculateStage(plan, t, today) ==
    LET d == daysElapsed(plan, today)
        hit == {i \in 0..(NumStages - 1) : cumBefore(t, i) <= d /\ d < cumBefore(t, i) + t[i + 1]}
        idx == IF hit = {} THEN NumStages - 1 ELSE CHOOSE i \in hit : TRUE
    IN  [stageName |-> StageNames[idx + 1], stageIndex |-> idx, days |-> d]

\* What localStorage holds under crop_<id>: nothing, text JSON.parse rejects,
\* or a saved plan.
CorruptItem == [json |-> FALSE, plantingDay |-> 0, plantingMs |-> 0]
PlanItemAt(p, ms) == [json |-> TRUE, plantingDay |-> p, plantingMs |-> ms]
PlanItem(p) == PlanItemAt(p, 0)

\* getCropInfo(id)
getCropInfo(item, t, today) ==
    IF IsSome(item)
    THEN IF Get(item).json
         THEN Some(calculateStage(Get(item), t, today))
         ELSE None                                \* catch (e) { return null; }
    ELSE None

\* cropStage={cropInfo ? { name: cropInfo.stageName, index: cropInfo.stageIndex } : undefined}
cropStageProp(info) ==
    IF IsSome(info)
    THEN Some([name |-> Get(info).stageName, index |-> Get(info).stageIndex])
    ELSE None

\* The cropStage prop of the card in the current state.
cropStage == cropStageProp(getCropInfo(cropItem, stageTable, nowDay))

(***************************************************************************)
(* The inputs of the model.                                                *)
(***************************************************************************)
WeatherData(t, rc, rf) == [temp |-> t, rainChance |-> rc, rainForecast24h |-> rf]

\* A snapshot of all zeros, and the snapshots at and just over each limit.
Weathers ==
    {WeatherData(0, 0, 0)} \cup
    {WeatherData(t, rc, rf) : t \in {HEAT_LIMIT, HEAT_LIMIT + 1},
                              rc \in {RAIN_CHANCE_LIMIT, RAIN_CHANCE_LIMIT + 1},
                              rf \in {RAIN_VOLUME_LIMIT, RAIN_VOLUME_LIMIT + 1}}

CropItems ==
    {None, Some(CorruptItem)} \cup {Some(PlanItem(p)) : p \in 0..(MaxDay + 1)}

(***************************************************************************)
(* Time.  A JavaScript time value (milliseconds since the epoch) is kept   *)
(* exactly, as whole days since the epoch plus milliseconds into the day:  *)
(* [d |-> days, ms |-> 0..DayMs-1] stands for d * DayMs + ms.              *)
(***************************************************************************)
MinuteMs == 60 * 1000

T(d, ms) == [d |-> d, ms |-> ms]
Zero == T(0, 0)
TLt(a, b) == a.d < b.d \/ (a.d = b.d /\ a.ms < b.ms)
TLe(a, b) == a.d < b.d \/ (a.d = b.d /\ a.ms <= b.ms)
\* t + k ms, for -DayMs < k < DayMs
AddMs(t, k) ==
    LET m == t.ms + k
    IN  IF m < 0 THEN T(t.d - 1, m + DayMs)
        ELSE IF m >= DayMs THEN T(t.d + 1, m - DayMs)
        ELSE T(t.d, m)
\* t - n * DayMs
MinusDays(t, n) == T(t.d - n, t.ms)

(***************************************************************************)
(* parseDate (services/dataService).  A raw timestamp string is kept as    *)
(* the format it is written in and the value it spells:                    *)
(*   "iso"     an ISO-8601 instant, v the instant;                         *)
(*   "locale"  MM/DD/YYYY HH:mm:ss, v the local wall-clock time;           *)
(*   "serial"  a spreadsheet date serial, v.d the whole serial number;     *)
(*   "empty", "garbage"  nothing parseDate recognises.                     *)
(***************************************************************************)
SERIAL_EPOCH == 25569
Raw(fmt, v) == [fmt |-> fmt, v |-> v]

parseDate(raw, tz) ==
    CASE raw.fmt = "iso" -> raw.v
      [] raw.fmt = "locale" -> AddMs(raw.v, 0 - tz)
      [] raw.fmt = "serial" -> T(raw.v.d - SERIAL_EPOCH, 0)
      [] OTHER -> Zero

\* formatFriendlyDate (services/dataService): not interpreted.
formatFriendlyDate(raw) == [friendly |-> raw]

(***************************************************************************)
(* WaterLevelChart.chartData                                               *)
(***************************************************************************)
TimeRanges == {"24h", "7d", "30d", "all", "custom"}

\* new Date(customStart).getTime(): a date-only string is UTC midnight.
dateOnlyTime(day) == T(day, 0)

\* new Date(customEnd).setHours(23, 59, 59, 999): the last millisecond of the
\* local day the UTC midnight of customEnd falls in.
endOfLocalDay(day, tz) ==
    LET local == AddMs(dateOnlyTime(day), tz)
    IN  AddMs(T(local.d, DayMs - 1), 0 - tz)

\* Mutant: the 30 day window written as 3 days.
startTime_shortMonth(r, n, cs) ==
    IF r = "24h" THEN MinusDays(n, 1)
    ELSE IF r = "7d" THEN MinusDays(n, 7)
    ELSE IF r = "30d" THEN MinusDays(n, 3)
    ELSE IF r = "custom" THEN (IF IsSome(cs) THEN dateOnlyTime(Get(cs)) ELSE Zero)
    ELSE Zero
startTime(r, n, cs) ==
    IF r = "24h" THEN MinusDays(n, 1)
    ELSE IF r = "7d" THEN MinusDays(n, 7)
    ELSE IF r = "30d" THEN MinusDays(n, 30)
    ELSE IF r = "custom" THEN (IF IsSome(cs) THEN dateOnlyTime(Get(cs)) ELSE Zero)
    ELSE Zero

endTime(r, n, ce, tz) ==
    IF r = "custom" THEN (IF IsSome(ce) THEN endOfLocalDay(Get(ce), tz) ELSE n)
    ELSE n

\* .map(d => ({ ...d, ts: parseDate(d.time) }))
withTs(d, tz) == [time |-> d.time, level |-> d.level, ts |-> parseDate(d.time, tz)]

\* Mutant: an inverted window read as the window between its two bounds.
inRange_swapping(p, st, et) ==
    /\ TLt(Zero, p.ts)
    /\ IF TLt(et, st) THEN TLe(et, p.ts) /\ TLe(p.ts, st)
                      ELSE TLe(st, p.ts) /\ TLe(p.ts, et)
\* Mutant: the test for the unparseable sentinel left out.
inRange_noSentinel(p, st, et) == TLe(st, p.ts) /\ TLe(p.ts, et)
\* Mutant: the window's end not tested.
inRange_noEnd(p, st, et) == TLt(Zero, p.ts) /\ TLe(st, p.ts)
\* Mutant: the window's start taken exclusively.
inRange_exclusiveStart(p, st, et) == TLt(Zero, p.ts) /\ TLt(st, p.ts) /\ TLe(p.ts, et)
\* d.ts > 0 && d.ts >= startTime && d.ts <= endTime
inRange(p, st, et) == TLt(Zero, p.ts) /\ TLe(st, p.ts) /\ TLe(p.ts, et)

RECURSIVE mapFilter_merging(_, _, _, _)
\* Mutant: of the readings with one timestamp only the last is kept.
mapFilter_merging(ds, tz, st, et) ==
    IF ds = <<>> THEN <<>>
    ELSE LET p == withTs(Head(ds), tz)
             rest == mapFilter_merging(Tail(ds), tz, st, et)
         IN  IF inRange(p, st, et) /\ \A j \in 1..Len(rest) : rest[j].ts # p.ts
             THEN <<p>> \o rest ELSE rest

RECURSIVE mapFilter(_, _, _, _)
mapFilter(ds, tz, st, et) ==
    IF ds = <<>> THEN <<>>
    ELSE LET p == withTs(Head(ds), tz)
             rest == mapFilter(Tail(ds), tz, st, et)
         IN  IF inRange(p, st, et) THEN <<p>> \o rest ELSE rest

RECURSIVE insertByTs(_, _)
\* p put behind every element that is not later than it (a stable sort step).
insertByTs(sorted, p) ==
    IF sorted = <<>> THEN <<p>>
    ELSE IF TLt(p.ts, Head(sorted).ts) THEN <<p>> \o sorted
    ELSE <<Head(sorted)>> \o insertByTs(Tail(sorted), p)

\* Mutant: the readings left in the order they came in.
sortByTs_inputOrder(ps) == ps
RECURSIVE sortByTs(_)
\* .sort((a, b) => a.ts - b.ts)
sortByTs(ps) ==
    IF ps = <<>> THEN <<>>
    ELSE insertByTs(sortByTs(SubSeq(ps, 1, Len(ps) - 1)), ps[Len(ps)])

\* The axis label: which fields of the local time it prints, and their values.
axisLabel(r, ts, tz) ==
    LET local == AddMs(ts, tz)
        hour == local.ms \div HourMs
        minute == (local.ms % HourMs) \div MinuteMs
    IN  IF r = "24h" THEN [kind |-> "HH:mm", day |-> 0, hour |-> hour, minute |-> minute]
        ELSE IF r = "7d" \/ r = "30d"
             THEN [kind |-> "D/M Hh", day |-> local.d, hour |-> hour, minute |-> 0]
        ELSE [kind |-> "MMM D", day |-> local.d, hour |-> 0, minute |-> 0]

point(p, r, tz) ==
    [time |-> p.time, level |-> p.level, ts |-> p.ts,
     friendlyDate |-> formatFriendlyDate(p.time),
     axisLabel |-> axisLabel(r, p.ts, tz)]

\* The useMemo body.
computeChartData(ds, r, cs, ce, n, tz) ==
    IF Len(ds) = 0 THEN <<>>
    ELSE LET processed == sortByTs(mapFilter(ds, tz, startTime(r, n, cs), endTime(r, n, ce, tz)))
         IN  [i \in 1..Len(processed) |-> point(processed[i], r, tz)]

(***************************************************************************)
(* The chart before it is mounted.                                         *)
(***************************************************************************)
(***************************************************************************)
(* App: loadData and what it does with a fetch.                            *)
(***************************************************************************)
MaxRequests == 2
MaxTicks == 1
MaxVersion == 1

SensorIds == {1, 2}
NOT_LISTED == 9999
DEFAULT_ERROR == "Connection failed. Please ensure your Google Sheet is active and accessible."

\* What fetchSensorData resolves with when the sheet holds version v and the
\* sensors ids: every record carries the version it was read at.
FetchedData(sh) ==
    [sensors |-> IF sh.ids = {1, 2}
                 THEN <<[id |-> 1, name |-> "Plot 1", ver |-> sh.ver],
                        [id |-> 2, name |-> "Plot 2", ver |-> sh.ver]>>
                 ELSE <<[id |-> 1, name |-> "Plot 1", ver |-> sh.ver]>>,
     gateway |-> Some([ver |-> sh.ver]),
     logs |-> <<[ver |-> sh.ver]>>]
NoData == [sensors |-> <<>>, gateway |-> None, logs |-> <<>>]

\* 1. Apply Custom Names: name: savedNames[s.id] || s.name
sensorsWithNames(ss, names) ==
    [i \in 1..Len(ss) |->
        [ss[i] EXCEPT !.name = IF names[ss[i].id] # "" THEN names[ss[i].id] ELSE @]]

\* orderList.indexOf(id), with -1 replaced by 9999
orderIndex(orderList, id) ==
    IF \E i \in 1..Len(orderList) : orderList[i] = id
    THEN (CHOOSE i \in 1..Len(orderList) :
             orderList[i] = id /\ \A j \in 1..(i - 1) : orderList[j] # id) - 1
    ELSE NOT_LISTED

RECURSIVE insertByOrder(_, _, _)
insertByOrder(sorted, s, orderList) ==
    IF sorted = <<>> THEN <<s>>
    ELSE IF orderIndex(orderList, sorted[Len(sorted)].id) <= orderIndex(orderList, s.id)
         THEN Append(sorted, s)
         ELSE Append(insertByOrder(SubSeq(sorted, 1, Len(sorted) - 1), s, orderList),
                     sorted[Len(sorted)])

RECURSIVE sortByOrder(_, _)
sortByOrder(ss, orderList) ==
    IF ss = <<>> THEN <<>>
    ELSE insertByOrder(sortByOrder(SubSeq(ss, 1, Len(ss) - 1), orderList), ss[Len(ss)],
                       orderList)

\* Mutant: a fetch older than what is displayed does not replace the sensors.
sortedSensors_ifNewer(fetched, names, order) ==
    IF sensors # <<>> /\ fetched.sensors # <<>> /\ fetched.sensors[1].ver < sensors[1].ver
    THEN sensors
    ELSE IF IsSome(order)
         THEN sortByOrder(sensorsWithNames(fetched.sensors, names), Get(order))
         ELSE sensorsWithNames(fetched.sensors, names)
\* 2. Apply saved order: the list loadData hands to setSensors.
sortedSensors(fetched, names, order) ==
    IF IsSome(order)
    THEN sortByOrder(sensorsWithNames(fetched.sensors, names), Get(order))
    ELSE sensorsWithNames(fetched.sensors, names)

\* sortedSensors.find(s => s.id === id)
find(ss, id) ==
    IF \E i \in 1..Len(ss) : ss[i].id = id
    THEN Some(ss[CHOOSE i \in 1..Len(ss) : ss[i].id = id /\ \A j \in 1..(i - 1) : ss[j].id # id])
    ELSE None

\* Mutant: err.message shown as it came.
errorMessage_raw(m) == m
\* The message the catch block shows for err.message = m.
errorMessage(m) == IF m # "" /\ m # "Failed to fetch" THEN m ELSE DEFAULT_ERROR

AppIdle ==
    /\ loading = TRUE
    /\ error = None
    /\ sensors = <<>>
    /\ gateway = None
    /\ logs = <<>>
    /\ selectedSensor = None
    /\ lastRefreshed = 0
    /\ isRearranging = FALSE
    /\ savedNames = [i \in SensorIds |-> ""]
    /\ sensorOrder = None
    /\ sheet = [ver |-> 0, ids |-> SensorIds]
    /\ inflight = {}
    /\ nextReq = 1
    /\ clock = 0
    /\ completed = <<>>
    /\ appc = "unmounted"

ChartIdle ==
    /\ data = <<>>
    /\ range = "24h"
    /\ customStart = None
    /\ customEnd = None
    /\ now = 0
    /\ tzOffset = 0
    /\ chartData = <<>>
    /\ cpc = "unmounted"

(***************************************************************************)
(* The card: first render, and the re-render its click handler causes.     *)
(***************************************************************************)
InitAdvice ==
    /\ level \in Levels
    /\ weather \in {None} \cup {Some(w) : w \in Weathers}
    /\ cropItem \in CropItems
    /\ stageTable \in StageTables
    /\ nowDay = MaxDay
    /\ showRationale = FALSE
    /\ advice = InitialAdvice
    /\ apc = "mounting"
    /\ ChartIdle
    /\ cropInfo = None
    /\ AppIdle

\* Mutant: the verdict computed on the first render and kept from then on.
renderAdvice_firstOnly(l, w) ==
    IF apc = "rendered" THEN advice ELSE evaluate(l, w, cropStage)
\* The component function run with props level l and weather w:
\* `let advice = {...}`, then evaluate().
renderAdvice(l, w) == evaluate(l, w, cropStage)

RenderAdvice ==
    /\ apc = "mounting"
    /\ advice' = renderAdvice(level, weather)
    /\ apc' = "rendered"
    /\ UNCHANGED <<level, weather, cropItem, stageTable, nowDay, showRationale>>
    /\ UNCHANGED chartVars
    /\ UNCHANGED stageVars
    /\ UNCHANGED appVars

\* onClick={() => setShowRationale(!showRationale)}, and the render it causes.
ToggleRationale ==
    /\ apc = "rendered"
    /\ showRationale' = ~showRationale
    /\ advice' = renderAdvice(level, weather)
    /\ UNCHANGED <<level, weather, cropItem, stageTable, nowDay, apc>>
    /\ UNCHANGED chartVars
    /\ UNCHANGED stageVars
    /\ UNCHANGED appVars

\* The levels and weathers a parent render hands down after a refresh.
PropLevels == {3, 10, 17, 22}
PropWeathers == {None, Some(WeatherData(HEAT_LIMIT + 1, RAIN_CHANCE_LIMIT + 1, RAIN_VOLUME_LIMIT + 1))}

\* The dashboard renders the card again with a new level or weather
\* (level={sensor.currentLevel} weather={weather}).
ReceiveProps(l, w) ==
    /\ apc = "rendered"
    /\ <<l, w>> # <<level, weather>>
    /\ level' = l
    /\ weather' = w
    /\ advice' = renderAdvice(l, w)
    /\ UNCHANGED <<cropItem, stageTable, nowDay, showRationale, apc>>
    /\ UNCHANGED chartVars
    /\ UNCHANGED stageVars
    /\ UNCHANGED appVars

NextAdvice ==
    \/ RenderAdvice
    \/ ToggleRationale
    \/ \E l \in PropLevels, w \in PropWeathers : ReceiveProps(l, w)

SpecAdvice == InitAdvice /\ [][NextAdvice]_vars

(***************************************************************************)
(* The card while the chart is looked at.                                  *)
(***************************************************************************)
AdviceIdle ==
    /\ level = 0
    /\ weather = None
    /\ cropItem = None
    /\ stageTable = [i \in 1..NumStages |-> 1]
    /\ nowDay = MaxDay
    /\ showRationale = FALSE
    /\ advice = InitialAdvice
    /\ apc = "unmounted"

(***************************************************************************)
(* The chart's inputs: the clock around noon of day ChartToday, and        *)
(* readings stamped at and around each window edge.                        *)
(***************************************************************************)
RefNow == T(ChartToday, 12 * HourMs)
Nows == {RefNow, AddMs(RefNow, 1)}
TimeZones == {0 - 5 * HourMs, 0, 5 * HourMs + 30 * MinuteMs}

\* With the clock at RefNow or a millisecond later, each window edge has a
\* reading on it and one a millisecond outside it.
Instants ==
    {AddMs(MinusDays(RefNow, 1), k) : k \in {0, 1}} \cup
    {MinusDays(RefNow, n) : n \in {7, 30}} \cup
    {AddMs(RefNow, k) : k \in {1, 2}} \cup
    {Zero, T(0, 1), T(0 - 1, 12 * HourMs)}

RawTimes ==
    {Raw("iso", t) : t \in Instants} \cup
    {Raw("locale", T(ChartToday, 9 * HourMs)),
     Raw("serial", T(SERIAL_EPOCH + ChartToday - 3, 0)),
     Raw("empty", Zero), Raw("garbage", Zero)}

Readings == {[time |-> r, level |-> 7] : r \in RawTimes}

RECURSIVE SeqsUpTo(_, _)
SeqsUpTo(S, n) ==
    IF n = 0 THEN {<<>>}
    ELSE LET shorter == SeqsUpTo(S, n - 1)
         IN  shorter \cup {Append(q, x) : q \in {q0 \in shorter : Len(q0) = n - 1}, x \in S}

CustomDays == {ChartToday - 2, ChartToday - 1}

InitChart ==
    /\ data \in SeqsUpTo(Readings, MaxReadings)
    /\ range = "24h"
    /\ customStart = None
    /\ customEnd = None
    /\ now = RefNow
    /\ tzOffset \in TimeZones
    /\ chartData = <<>>
    /\ cpc = "mounting"
    /\ AdviceIdle
    /\ cropInfo = None
    /\ AppIdle

\* A render whose useMemo runs: Date.now() is read, chartData recomputed from
\* the state the render sees.
Recompute(r, cs, ce) ==
    /\ now' \in {n \in Nows : TLe(now, n)}
    /\ chartData' = computeChartData(data, r, cs, ce, now', tzOffset)

MountChart ==
    /\ cpc = "mounting"
    /\ cpc' = "rendered"
    /\ Recompute(range, customStart, customEnd)
    /\ UNCHANGED <<data, range, customStart, customEnd, tzOffset>>
    /\ UNCHANGED adviceVars
    /\ UNCHANGED stageVars
    /\ UNCHANGED appVars

\* onClick={() => setRange(r)}
SetRange(r) ==
    /\ cpc = "rendered"
    /\ r # range
    /\ range' = r
    /\ Recompute(r, customStart, customEnd)
    /\ UNCHANGED <<data, customStart, customEnd, tzOffset, cpc>>
    /\ UNCHANGED adviceVars
    /\ UNCHANGED stageVars
    /\ UNCHANGED appVars

\* onChange={(e) => setCustomStart(e.target.value)}; the input shows only
\* while the range is 'custom'.
SetCustomStart(cs) ==
    /\ cpc = "rendered"
    /\ range = "custom"
    /\ cs # customStart
    /\ customStart' = cs
    /\ Recompute(range, cs, customEnd)
    /\ UNCHANGED <<data, range, customEnd, tzOffset, cpc>>
    /\ UNCHANGED adviceVars
    /\ UNCHANGED stageVars
    /\ UNCHANGED appVars

\* onChange={(e) => setCustomEnd(e.target.value)}
SetCustomEnd(ce) ==
    /\ cpc = "rendered"
    /\ range = "custom"
    /\ ce # customEnd
    /\ customEnd' = ce
    /\ Recompute(range, customStart, ce)
    /\ UNCHANGED <<data, range, customStart, tzOffset, cpc>>
    /\ UNCHANGED adviceVars
    /\ UNCHANGED stageVars
    /\ UNCHANGED appVars

NextChart ==
    \/ MountChart
    \/ \E r \in TimeRanges : SetRange(r)
    \/ \E cs \in {None} \cup {Some(d) : d \in CustomDays} : SetCustomStart(cs)
    \/ \E ce \in {None} \cup {Some(d) : d \in CustomDays} : SetCustomEnd(ce)

SpecChart == InitChart /\ [][NextChart]_vars

(***************************************************************************)
(* The chart under a Custom range: readings stamped at and around the      *)
(* first and the last millisecond of the local day ChartToday - 1.         *)
(***************************************************************************)
\* The epoch time of a local wall-clock time.
fromLocal(wall, tz) == AddMs(wall, 0 - tz)

CustomInstants(tz) ==
    LET first == fromLocal(T(ChartToday - 1, 0), tz)
        last == fromLocal(T(ChartToday - 1, DayMs - 1), tz)
    IN  {AddMs(first, 0 - 1), first, last, AddMs(last, 1)}

CustomReadings(tz) == {[time |-> Raw("iso", t), level |-> 7] : t \in CustomInstants(tz)}

InitCustom ==
    /\ tzOffset \in TimeZones
    /\ data \in SeqsUpTo(CustomReadings(tzOffset), MaxReadings)
    /\ range = "24h"
    /\ customStart = None
    /\ customEnd = None
    /\ now = RefNow
    /\ chartData = <<>>
    /\ cpc = "mounting"
    /\ AdviceIdle
    /\ cropInfo = None
    /\ AppIdle

SpecCustom == InitCustom /\ [][NextChart]_vars

(***************************************************************************)
(* The dashboard list resolving a sensor's crop stage as the days go by.   *)
(* The planting date is a calendar date and the clock is counted in whole  *)
(* days, so floor((now - plantingDate) / 1 day) is their difference.       *)
(***************************************************************************)
AllStageTables == [1..NumStages -> 1..MaxStageDuration]
PlantingDays == 0..2
PlantingTimes == {0, 12 * HourMs}

InitStage ==
    /\ cropItem \in {Some(PlanItemAt(p, ms)) : p \in PlantingDays, ms \in PlantingTimes}
    /\ stageTable \in AllStageTables
    /\ nowDay = 0
    /\ cropInfo = None
    /\ AppIdle
    /\ level = 0
    /\ weather = None
    /\ showRationale = FALSE
    /\ advice = InitialAdvice
    /\ apc = "unmounted"
    /\ ChartIdle

\* A render of the list: const cropInfo = getCropInfo(sensor.id)
ResolveStage ==
    /\ cropInfo' = getCropInfo(cropItem, stageTable, nowDay)
    /\ cropInfo' # cropInfo
    /\ UNCHANGED adviceVars
    /\ UNCHANGED chartVars
    /\ UNCHANGED appVars

\* A day passes, and the list renders again.
AdvanceDay ==
    /\ nowDay < MaxStageDay
    /\ nowDay' = nowDay + 1
    /\ cropInfo' = getCropInfo(cropItem, stageTable, nowDay')
    /\ UNCHANGED <<level, weather, cropItem, stageTable, showRationale, advice, apc>>
    /\ UNCHANGED chartVars
    /\ UNCHANGED appVars

NextStage == ResolveStage \/ AdvanceDay

SpecStage == InitStage /\ [][NextStage]_vars

(***************************************************************************)
(* The detail view: the card or the chart, whichever is being looked at.   *)
(***************************************************************************)
(***************************************************************************)
(* App: the refreshes of the dashboard.  A loadData call runs to its await, *)
(* the fetch is answered some time later, and the rest of the call runs     *)
(* when the answer is delivered; calls overlap freely.                      *)
(***************************************************************************)
NoApply == UNCHANGED <<sensors, gateway, logs, selectedSensor, lastRefreshed, completed>>

FailureMessages == {"", "Failed to fetch", "HTTP 500"}
CustomNames == {"", "North"}
SheetIdSets == {{1, 2}, {1}}

InitApp ==
    /\ loading = TRUE
    /\ error = None
    /\ sensors = <<>>
    /\ gateway = None
    /\ logs = <<>>
    /\ selectedSensor = None
    /\ lastRefreshed = 0
    /\ isRearranging = FALSE
    /\ savedNames = [i \in SensorIds |-> ""]
    /\ sensorOrder \in {None, Some(<<2, 1>>)}
    /\ sheet \in {[ver |-> 0, ids |-> s] : s \in SheetIdSets}
    /\ inflight = {}
    /\ nextReq = 1
    /\ clock = 0
    /\ completed = <<>>
    /\ appc = "constructed"
    /\ AdviceIdle
    /\ ChartIdle
    /\ cropInfo = None

\* loadData up to its await, called from a render in which isRearranging and
\* selectedSensor had the values rearranging and selected.
startLoad(rearranging, selected) ==
    /\ nextReq <= MaxRequests
    /\ loading' = IF ~rearranging THEN TRUE ELSE loading
    /\ error' = None
    /\ inflight' = inflight \cup {[id |-> nextReq, sel |-> selected, resp |-> None]}
    /\ nextReq' = nextReq + 1

\* useEffect(() => { loadData(); setInterval(loadData, 60000) }, [])
Mount ==
    /\ appc = "constructed"
    /\ appc' = "mounted"
    /\ startLoad(isRearranging, selectedSensor)
    /\ NoApply
    /\ UNCHANGED <<isRearranging, savedNames, sensorOrder, sheet, clock>>
    /\ UNCHANGED <<adviceVars, chartVars, stageVars>>

\* The interval fires: the loadData of the first render runs, whose
\* isRearranging is false and whose selectedSensor is null.
IntervalFires ==
    /\ appc = "mounted"
    /\ clock < MaxTicks
    /\ clock' = clock + 1
    /\ startLoad(FALSE, None)
    /\ NoApply
    /\ UNCHANGED <<isRearranging, savedNames, sensorOrder, sheet, appc>>
    /\ UNCHANGED <<adviceVars, chartVars, stageVars>>

\* The refresh button: onClick={loadData}
ClickRefresh ==
    /\ appc = "mounted"
    /\ startLoad(isRearranging, selectedSensor)
    /\ NoApply
    /\ UNCHANGED <<isRearranging, savedNames, sensorOrder, sheet, clock, appc>>
    /\ UNCHANGED <<adviceVars, chartVars, stageVars>>

\* The Retry button of the error banner: {error && ... onClick={loadData}}
ClickRetry ==
    /\ appc = "mounted"
    /\ error # None
    /\ startLoad(isRearranging, selectedSensor)
    /\ NoApply
    /\ UNCHANGED <<isRearranging, savedNames, sensorOrder, sheet, clock, appc>>
    /\ UNCHANGED <<adviceVars, chartVars, stageVars>>

\* handleSaveName(e, id) with tempName.trim() = name
handleSaveName(id, name) ==
    /\ appc = "mounted"
    /\ selectedSensor = None
    /\ \E i \in 1..Len(sensors) : sensors[i].id = id
    /\ savedNames' = [savedNames EXCEPT ![id] = name]
    /\ startLoad(isRearranging, selectedSensor)
    /\ NoApply
    /\ UNCHANGED <<isRearranging, sensorOrder, sheet, clock, appc>>
    /\ UNCHANGED <<adviceVars, chartVars, stageVars>>

\* The sheet is edited: a new version, with the sensors ids.
SheetChanges(ids) ==
    /\ appc = "mounted"
    /\ sheet.ver < MaxVersion
    /\ sheet' = [ver |-> sheet.ver + 1, ids |-> ids]
    /\ UNCHANGED <<loading, error, sensors, gateway, logs, selectedSensor, lastRefreshed,
                   isRearranging, savedNames, sensorOrder, inflight, nextReq, clock,
                   completed, appc>>
    /\ UNCHANGED <<adviceVars, chartVars, stageVars>>

\* fetchSensorData of call r is answered: with what the sheet holds now, or
\* with an error whose message is m.
ServerResponds(r, ok, m) ==
    /\ r \in inflight
    /\ r.resp = None
    /\ inflight' = (inflight \ {r}) \cup
          {[r EXCEPT !.resp = Some([ok |-> ok,
                                    data |-> IF ok THEN FetchedData(sheet) ELSE NoData,
                                    message |-> IF ok THEN "" ELSE m])]}
    /\ UNCHANGED <<loading, error, sensors, gateway, logs, selectedSensor, lastRefreshed,
                   isRearranging, savedNames, sensorOrder, sheet, nextReq, clock,
                   completed, appc>>
    /\ UNCHANGED <<adviceVars, chartVars, stageVars>>

\* Mutant: loading reset at the end of the try block only, not in finally.
CompleteLoad_noFinally(r) ==
    /\ r \in inflight
    /\ r.resp # None
    /\ LET resp == Get(r.resp)
           sorted == sortedSensors(resp.data, savedNames, sensorOrder)
           updated == IF IsSome(r.sel) THEN find(sorted, Get(r.sel).id) ELSE None
       IN  IF resp.ok
           THEN /\ sensors' = sorted
                /\ gateway' = resp.data.gateway
                /\ logs' = resp.data.logs
                /\ lastRefreshed' = clock
                /\ selectedSensor' = IF IsSome(updated) THEN updated ELSE selectedSensor
                /\ completed' = Append(completed,
                                       [req |-> r.id, ver |-> Get(resp.data.gateway).ver])
                /\ error' = error
                /\ loading' = FALSE
           ELSE /\ error' = Some(errorMessage(resp.message))
                /\ NoApply
                /\ loading' = loading
    /\ inflight' = inflight \ {r}
    /\ UNCHANGED <<isRearranging, savedNames, sensorOrder, sheet, nextReq, clock, appc>>
    /\ UNCHANGED <<adviceVars, chartVars, stageVars>>

\* loadData after its await: the try block's rest, or the catch block, and
\* the finally block.
CompleteLoad(r) ==
    /\ r \in inflight
    /\ r.resp # None
    /\ LET resp == Get(r.resp)
           sorted == sortedSensors(resp.data, savedNames, sensorOrder)
           updated == IF IsSome(r.sel) THEN find(sorted, Get(r.sel).id) ELSE None
       IN  IF resp.ok
           THEN /\ sensors' = sorted
                /\ gateway' = resp.data.gateway
                /\ logs' = resp.data.logs
                /\ lastRefreshed' = clock
                /\ selectedSensor' = IF IsSome(updated) THEN updated ELSE selectedSensor
                /\ completed' = Append(completed,
                                       [req |-> r.id, ver |-> Get(resp.data.gateway).ver])
                /\ error' = error
           ELSE /\ error' = Some(errorMessage(resp.message))
                /\ NoApply
    /\ loading' = FALSE
    /\ inflight' = inflight \ {r}
    /\ UNCHANGED <<isRearranging, savedNames, sensorOrder, sheet, nextReq, clock, appc>>
    /\ UNCHANGED <<adviceVars, chartVars, stageVars>>

AppFrame ==
    /\ UNCHANGED <<loading, error, sensors, gateway, logs, lastRefreshed, savedNames,
                   sensorOrder, sheet, inflight, nextReq, clock, completed, appc>>
    /\ UNCHANGED <<adviceVars, chartVars, stageVars>>

\* A card of the list is clicked: onClick={() => setSelectedSensor(sensor)}
SelectSensor(i) ==
    /\ appc = "mounted"
    /\ selectedSensor = None
    /\ ~isRearranging
    /\ i \in 1..Len(sensors)
    /\ selectedSensor' = Some(sensors[i])
    /\ UNCHANGED isRearranging
    /\ AppFrame

\* The detail view's back button: onClick={() => setSelectedSensor(null)}
Deselect ==
    /\ appc = "mounted"
    /\ selectedSensor # None
    /\ selectedSensor' = None
    /\ UNCHANGED isRearranging
    /\ AppFrame

\* The arrange button: onClick={() => setIsRearranging(!isRearranging)}
ToggleRearranging ==
    /\ appc = "mounted"
    /\ selectedSensor = None
    /\ isRearranging' = ~isRearranging
    /\ UNCHANGED selectedSensor
    /\ AppFrame

NextApp ==
    \/ Mount
    \/ IntervalFires
    \/ ClickRefresh
    \/ ClickRetry
    \/ \E id \in SensorIds, name \in CustomNames : handleSaveName(id, name)
    \/ \E ids \in SheetIdSets : SheetChanges(ids)
    \/ \E r \in inflight, ok \in BOOLEAN, m \in FailureMessages : ServerResponds(r, ok, m)
    \/ \E r \in inflight : CompleteLoad(r)
    \/ \E i \in 1..Len(sensors) : SelectSensor(i)
    \/ Deselect
    \/ ToggleRearranging

SpecApp == InitApp /\ [][NextApp]_vars

Init == InitAdvice \/ InitChart
Next == NextAdvice \/ NextChart
Spec == Init /\ [][Next]_vars

(***************************************************************************)
(* The sensor detail view: one card and one chart on the same page, their  *)
(* renders interleaved.                                                    *)
(***************************************************************************)
DetailReadings ==
    LET inWindow == [time |-> Raw("iso", AddMs(MinusDays(RefNow, 1), 1)), level |-> 7]
        unparsed == [time |-> Raw("garbage", Zero), level |-> 7]
    IN  {<<>>, <<inWindow, unparsed>>, <<unparsed, inWindow>>}

InitDetail ==
    /\ level \in PropLevels
    /\ weather \in PropWeathers
    /\ cropItem \in {None, Some(PlanItem(0))}
    /\ stageTable \in StageTables
    /\ nowDay = MaxDay
    /\ showRationale = FALSE
    /\ advice = InitialAdvice
    /\ apc = "mounting"
    /\ data \in DetailReadings
    /\ range = "24h"
    /\ customStart = None
    /\ customEnd = None
    /\ now = RefNow
    /\ tzOffset = 0
    /\ chartData = <<>>
    /\ cpc = "mounting"
    /\ cropInfo = None
    /\ AppIdle

SpecDetail == InitDetail /\ [][Next]_vars

(***************************************************************************)
(* Properties of the card.  They speak in the numbers of the               *)
(* specification, not in the constants above.                              *)
(***************************************************************************)
Severities == {"good", "warn", "critical", "info"}
Rendered == apc = "rendered"
StageAbsent == ~IsSome(cropStage)
StageIndex == stageIndexOf(cropStage)
\* Severity and headline of the card in this state.
Verdict == <<advice.type, advice.text>>
\* Rain expected / high heat as the specification words them.
RainExpected ==
    /\ IsSome(weather)
    /\ Get(weather).rainChance > 50 \/ Get(weather).rainForecast24h > 5
HighHeat == IsSome(weather) /\ Get(weather).temp > 35
DrainStage == IsSome(cropStage) /\ Get(cropStage).index \in {6, 7}
FloodStage == IsSome(cropStage) /\ Get(cropStage).index \in {0, 3, 4}
DryingStage == IsSome(cropStage) /\ Get(cropStage).index \in {1, 2, 5}

\* C1: evaluate yields a verdict, a severity of good/warn/critical/info with a
\* headline, for every level in -100..100 (levels outside 0..30 included),
\* every stage index 0..7 or no stage, and weather absent or present.
C1_Totality ==
    Rendered =>
        /\ advice.type \in Severities
        /\ advice.text \in STRING
        /\ advice.text # ""
        /\ DOMAIN advice = {"type", "text", "subtext", "rationale", "smartTip", "icon"}

\* C1 witness: a verdict for a level below the gauge, with no stage and no weather.
C1_Witness ==
    /\ Rendered
    /\ level < 0
    /\ StageAbsent
    /\ weather = None
    /\ advice.type \in Severities

\* C2: every stage index 0..7 lies in exactly one of needsFlood = {0,3,4},
\* allowsDrying = {1,2,5}, needsDrain = {6,7}; the three are pairwise
\* disjoint and cover 0..7, and the card's stage falls in exactly one.
C2_Partition ==
    /\ NeedsFloodStages = {0, 3, 4}
    /\ AllowAWDStages = {1, 2, 5}
    /\ NeedsDrainStages = {6, 7}
    /\ \A i \in 0..7 :
          Cardinality({k \in 1..3 :
              i \in <<NeedsFloodStages, AllowAWDStages, NeedsDrainStages>>[k]}) = 1
    /\ NeedsFloodStages \cup AllowAWDStages \cup NeedsDrainStages = 0..7
    /\ Rendered =>
          Cardinality({k \in 1..3 :
              <<needsFlood(cropStage), allowAWD(cropStage), needsDrain(cropStage)>>[k]}) = 1

\* C2 witness: a rendered card whose resolved stage is the last one.
C2_Witness == Rendered /\ IsSome(cropStage) /\ Get(cropStage).index = 7

\* C3: in stages 6 and 7 the verdict is Warn "Drain Field" when level > 15 and
\* Good "Ready" when level <= 15, at every level and weather.
C3_DrainOverrides ==
    (Rendered /\ DrainStage) =>
        Verdict = IF level > 15 THEN <<"warn", "Drain Field">> ELSE <<"good", "Ready">>

\* C3 witness: a drain stage above the high-water mark with rain expected.
C3_Witness ==
    /\ Rendered /\ DrainStage /\ level > 20 /\ RainExpected
    /\ Verdict = <<"warn", "Drain Field">>

\* C4: outside the drain stages, level < 5 gives Warn "Wait for Rain" when rain
\* is expected and Critical "Irrigate Now" otherwise, flood stage or not.
C4_LowWater ==
    /\ (Rendered /\ ~DrainStage /\ level < 5) =>
          Verdict = IF RainExpected THEN <<"warn", "Wait for Rain">>
                                    ELSE <<"critical", "Irrigate Now">>
    /\ (Rendered /\ level = 5) => advice.text # "Irrigate Now"

\* C4 witness: a flood stage at level 4 without rain.
C4_Witness ==
    /\ Rendered /\ FloodStage /\ level = 4 /\ ~RainExpected
    /\ Verdict = <<"critical", "Irrigate Now">>

\* C5: outside the drain stages, level > 20 gives Warn "Drain Excess" when rain
\* is expected and Info "Stop Irrigating" otherwise; never "Optimal Flood".
C5_HighWater ==
    /\ (Rendered /\ ~DrainStage /\ level > 20) =>
          /\ Verdict = IF RainExpected THEN <<"warn", "Drain Excess">>
                                       ELSE <<"info", "Stop Irrigating">>
          /\ advice.text # "Optimal Flood"
    /\ (Rendered /\ level = 20) => advice.text \notin {"Drain Excess", "Stop Irrigating"}

\* C5 witness: a flood stage at level 22 without rain.
C5_Witness ==
    /\ Rendered /\ FloodStage /\ level = 22 /\ ~RainExpected
    /\ Verdict = <<"info", "Stop Irrigating">>

\* C6: in stages 0, 3, 4 with 5 <= level <= 20: below 15 Warn "Wait for Rain"
\* when rain is expected, Warn "Increase Level" otherwise; from 15 on Good
\* "Optimal Flood".
C6_FloodBand ==
    (Rendered /\ FloodStage /\ 5 <= level /\ level <= 20) =>
        Verdict = IF level < 15
                  THEN IF RainExpected THEN <<"warn", "Wait for Rain">>
                                       ELSE <<"warn", "Increase Level">>
                  ELSE <<"good", "Optimal Flood">>

\* C6 witness: a flood stage exactly at the soil surface.
C6_Witness ==
    Rendered /\ FloodStage /\ level = 15 /\ Verdict = <<"good", "Optimal Flood">>

\* C7: in stages 1, 2, 5 with 5 <= level <= 20: Info "AWD Active" below 15 and
\* Good "Levels Good" from 15 on, whatever the weather.
C7_DryingBand ==
    (Rendered /\ DryingStage /\ 5 <= level /\ level <= 20) =>
        Verdict = IF level < 15 THEN <<"info", "AWD Active">>
                                ELSE <<"good", "Levels Good">>

\* C7 witness: a drying stage below the soil surface with rain expected.
C7_Witness ==
    /\ Rendered /\ DryingStage /\ level = 10 /\ RainExpected
    /\ Verdict = <<"info", "AWD Active">>

\* C8: with no saved plan, or one that cannot be read, the card gets no stage
\* and its severity and headline are those of stage index 1, and the stage name
\* it prints is "Vegetative".
C8_DefaultStage ==
    (Rendered /\ (~IsSome(cropItem) \/ ~Get(cropItem).json)) =>
        /\ StageAbsent
        /\ LET v == evaluate(level, weather, Some([name |-> "Tillering", index |-> 1]))
           IN  Verdict = <<v.type, v.text>>
        /\ advice.rationale.strs \in {<<>>, <<"Vegetative">>}

\* C8 witness: an unreadable plan, and a verdict that prints the stage name.
C8_Witness ==
    /\ Rendered
    /\ IsSome(cropItem) /\ ~Get(cropItem).json
    /\ advice.text = "Irrigate Now"
    /\ advice.rationale.strs = <<"Vegetative">>

\* C9: rain is expected iff rainChance > 50 or rainForecast24h > 5, heat is
\* high iff temp > 35, both false without weather; the verdict without
\* weather is the verdict with a snapshot of all zeros.
C9_WeatherPredicates ==
    /\ isRainExpected(weather) <=> RainExpected
    /\ isHighHeat(weather) <=> HighHeat
    /\ (Rendered /\ ~DrainStage /\ level < 5) =>
          (advice.text = "Wait for Rain" <=> RainExpected)
    /\ (Rendered /\ advice.text = "Optimal Flood") =>
          (IsSome(advice.smartTip) <=> HighHeat)
    /\ (Rendered /\ weather = None) =>
          advice = evaluate(level, Some(WeatherData(0, 0, 0)), cropStage)

\* C9 witness: rainChance 50 with 5 mm forecast is not rain-expected.
C9_Witness ==
    /\ Rendered /\ IsSome(weather)
    /\ Get(weather).rainChance = 50 /\ Get(weather).rainForecast24h = 5
    /\ level < 5 /\ advice.text = "Irrigate Now"

(***************************************************************************)
(* Properties of the chart's range selection.                              *)
(***************************************************************************)
ChartRendered == cpc = "rendered"
\* The epoch time a reading parses to.
ParsedTs(r) == parseDate(r.time, tzOffset)
\* How often a reading occurs in the input, and how many points carry it.
CountIn(r) == Cardinality({i \in 1..Len(data) : data[i] = r})
CountOut(r) ==
    Cardinality({i \in 1..Len(chartData) :
        chartData[i].time = r.time /\ chartData[i].level = r.level})
\* The days a "last N" range spans.
RangeDays == [r \in {"24h", "7d", "30d"} |-> IF r = "24h" THEN 1 ELSE IF r = "7d" THEN 7 ELSE 30]
\* The window as the specification words it.
InSpecWindow(r) ==
    LET ts == ParsedTs(r)
    IN  /\ ts # Zero
        /\ IF range = "all" THEN TLt(Zero, ts) /\ TLe(ts, now)
           ELSE TLe(MinusDays(now, RangeDays[range]), ts) /\ TLe(ts, now)

\* C10: for Last24h, Last7d, Last30d the output holds exactly the parsed
\* readings with now - N days <= epochMs <= now (both ends included), for
\* AllTime exactly those with 0 < epochMs <= now.
C10_WindowCorrect ==
    (ChartRendered /\ range \in {"24h", "7d", "30d", "all"}) =>
        /\ \A r \in Readings : CountOut(r) = IF InSpecWindow(r) THEN CountIn(r) ELSE 0
        /\ \A i \in 1..Len(chartData) :
              chartData[i].ts = parseDate(chartData[i].time, tzOffset)

\* C10 witness: of a reading exactly 24 h old and one a millisecond older,
\* Last24h shows the first alone.
C10_Witness ==
    /\ ChartRendered /\ range = "24h" /\ Len(data) = 2
    /\ ParsedTs(data[1]) = AddMs(MinusDays(now, 1), 0 - 1)
    /\ ParsedTs(data[2]) = MinusDays(now, 1)
    /\ Len(chartData) = 1
    /\ chartData[1].ts = MinusDays(now, 1)

\* C11: a reading whose timestamp parses to the sentinel 0 (empty or garbage
\* text) is in no output, whatever the range, Custom with or without a start
\* date included.
C11_SentinelExcluded ==
    ChartRendered =>
        /\ \A i \in 1..Len(chartData) : chartData[i].ts # Zero
        /\ \A r \in Readings : ParsedTs(r) = Zero => CountOut(r) = 0

\* C11 witness: a Custom range with no start date (its window starts at 0)
\* over one garbage reading and one good one shows the good one alone.
C11_Witness ==
    /\ ChartRendered /\ range = "custom" /\ customStart = None
    /\ Len(data) = 2
    /\ data[1].time.fmt = "garbage"
    /\ Len(chartData) = 1
    /\ chartData[1].time = data[2].time

\* C12: the output is in non-decreasing order of epochMs, whatever the order
\* of the input and whatever the range.
C12_Sorted ==
    ChartRendered =>
        \A i \in 1..Len(chartData) : \A j \in i..Len(chartData) :
            TLe(chartData[i].ts, chartData[j].ts)

\* C12 witness: two readings handed over latest first come out earliest first.
C12_Witness ==
    /\ ChartRendered /\ Len(data) = 2 /\ Len(chartData) = 2
    /\ TLt(ParsedTs(data[2]), ParsedTs(data[1]))
    /\ chartData[1].time = data[2].time
    /\ chartData[2].time = data[1].time

(***************************************************************************)
(* Properties of the crop stage resolver.                                  *)
(***************************************************************************)
\* The days the whole table takes.
TotalDays == cumBefore(stageTable, NumStages)

\* C13: with the planting date and the table fixed, the stage index never
\* moves backwards as "now" advances.
C13_MonotonicStage ==
    [][(IsSome(cropInfo) /\ IsSome(cropInfo') /\ cropItem' = cropItem /\ stageTable' = stageTable)
        => Get(cropInfo').stageIndex >= Get(cropInfo).stageIndex]_vars

\* C13 witness: days have passed and the stage has moved on from the first.
C13_Witness ==
    /\ IsSome(cropInfo)
    /\ Get(cropInfo).days > 0
    /\ Get(cropInfo).stageIndex = 4
    /\ nowDay > Get(cropItem).plantingDay

\* C14: the stage returned is the one whose [cumBefore, cumBefore + duration)
\* holds daysElapsed, and the last, 7, from the table's total on; so it is in
\* 0..7 for every daysElapsed >= 0, the total itself included.
C14_StageOfDay ==
    IsSome(cropInfo) =>
        LET idx == Get(cropInfo).stageIndex
            d == Get(cropInfo).days
        IN  /\ idx \in 0..7
            /\ d >= 0
            /\ d < TotalDays =>
                  /\ cumBefore(stageTable, idx) <= d
                  /\ d < cumBefore(stageTable, idx) + stageTable[idx + 1]
            /\ d >= TotalDays => idx = 7

\* C14 witness: daysElapsed exactly the table's total resolves to stage 7.
C14_Witness ==
    /\ IsSome(cropInfo)
    /\ Get(cropInfo).days = TotalDays
    /\ Get(cropInfo).stageIndex = 7

\* The first and the last millisecond of a calendar day in local time.
LocalDayStart(day) == fromLocal(T(day, 0), tzOffset)
LocalDayEnd(day) == fromLocal(T(day, DayMs - 1), tzOffset)

\* C15: a Custom range shows exactly the readings from 00:00:00.000 of the
\* start day to 23:59:59.999 of the end day, both taken in local time.
C15_CustomWindowLocal ==
    (ChartRendered /\ range = "custom" /\ IsSome(customStart) /\ IsSome(customEnd)) =>
        \A r \in CustomReadings(tzOffset) :
            CountOut(r) =
                IF /\ TLe(LocalDayStart(Get(customStart)), ParsedTs(r))
                   /\ TLe(ParsedTs(r), LocalDayEnd(Get(customEnd)))
                THEN CountIn(r) ELSE 0

Temps == {0, 35, 36}
WithTemp(w, t) == IF IsSome(w) THEN Some([Get(w) EXCEPT !.temp = t]) ELSE w

\* C20: the verdict is "Optimal Flood" exactly for a flood stage with
\* 15 <= level <= 20; there the tip is present exactly when the weather is
\* known and temp > 35, and the temperature changes no other field; in every
\* other branch the verdict is the same at every temperature.
C20_HeatTip ==
    Rendered =>
        /\ advice.text = "Optimal Flood"
              <=> (FloodStage /\ 15 <= level /\ level <= 20)
        /\ advice.text = "Optimal Flood"
              => /\ IsSome(advice.smartTip) <=> HighHeat
                 /\ (~IsSome(weather) \/ Get(weather).temp <= 35) => advice.smartTip = None
                 /\ \A t \in Temps :
                       [evaluate(level, WithTemp(weather, t), cropStage)
                           EXCEPT !.smartTip = None]
                       = [advice EXCEPT !.smartTip = None]
        /\ advice.text # "Optimal Flood"
              => \A t \in Temps :
                    evaluate(level, WithTemp(weather, t), cropStage) = advice

\* C20 witness: an "Optimal Flood" verdict at exactly 35 degrees, tip absent.
C20_Witness ==
    /\ Rendered /\ advice.text = "Optimal Flood"
    /\ IsSome(weather) /\ Get(weather).temp = 35
    /\ advice.smartTip = None
    /\ evaluate(level, WithTemp(weather, 36), cropStage).smartTip # None

(***************************************************************************)
(* What the rationale says.                                                *)
(***************************************************************************)
Branches ==
    {"Drain Field", "Ready", "Drain Excess", "Stop Irrigating", "Wait for Rain",
     "Irrigate Now", "Increase Level", "Optimal Flood", "AWD Active", "Levels Good"}

\* The threshold the deciding comparison of the cascade used.
ComparedThreshold ==
    IF DrainStage THEN 15
    ELSE IF level > 20 THEN 20
    ELSE IF level < 5 THEN 5
    ELSE 15

\* The text has a ${level} placeholder, filled with the level that was read.
EmbedsLevel(t) ==
    \E i \in 1..Len(NumHoles(t.fmt)) : NumHoles(t.fmt)[i] = "level" /\ t.nums[i] = level

\* The text shows the number n, written out or through a threshold constant.
EmbedsNumber(t, n) ==
    \/ n \in LiteralNumbers(t.fmt)
    \/ \E i \in 1..Len(NumHoles(t.fmt)) :
          NumHoles(t.fmt)[i] \in {"THRESHOLD_LOW", "THRESHOLD_HIGH"} /\ t.nums[i] = n

\* C19 as stated: every branch's rationale embeds both the level that was
\* read and the threshold it was compared with.
C19_RationaleEmbedsBoth ==
    (Rendered /\ advice.text \in Branches)
        => /\ EmbedsLevel(advice.rationale)
           /\ EmbedsNumber(advice.rationale, ComparedThreshold)

\* C19 amended: the rationale embeds the level that was read exactly in
\* Drain Excess, Wait for Rain, Irrigate Now and Optimal Flood, and the
\* threshold compared with exactly in Drain Field, Stop Irrigating, Irrigate
\* Now, Increase Level, AWD Active and Levels Good; so every branch but Ready
\* embeds one of the two, only Irrigate Now both, and Ready neither.
C19_RationaleEmbeds ==
    (Rendered /\ advice.text \in Branches)
        => /\ Len(NumHoles(advice.rationale.fmt)) = Len(advice.rationale.nums)
           /\ EmbedsLevel(advice.rationale)
                 <=> advice.text \in {"Drain Excess", "Wait for Rain", "Irrigate Now",
                                      "Optimal Flood"}
           /\ EmbedsNumber(advice.rationale, ComparedThreshold)
                 <=> advice.text \in {"Drain Field", "Stop Irrigating", "Irrigate Now",
                                      "Increase Level", "AWD Active", "Levels Good"}

\* C19 witness: a "Stop Irrigating" verdict whose rationale names the 20 cm
\* threshold and not the level.
C19_Witness ==
    /\ Rendered /\ advice.text = "Stop Irrigating"
    /\ EmbedsNumber(advice.rationale, 20)
    /\ ~EmbedsLevel(advice.rationale)

(***************************************************************************)
(* Refreshes.                                                              *)
(***************************************************************************)
\* The version of the sheet every displayed record was read at, if the
\* sensors, the gateway and the logs all show the same one.
ShowsVersion(v) ==
    /\ \A i \in 1..Len(sensors) : sensors[i].ver = v
    /\ gateway = Some([ver |-> v])
    /\ logs = <<[ver |-> v]>>

\* C18: what is displayed is what the fetch that returned last brought,
\* whichever call was started first: nothing orders the continuations of
\* overlapping loadData calls by their start, so (C18_Witness) the data of a
\* call started earlier replaces the data of a call started later.
C18_LastReturnedWins ==
    completed # <<>> => ShowsVersion(completed[Len(completed)].ver)

\* C18 witness: two calls overlapped, the one started later was applied
\* first, and the display now holds the older data of the one started earlier.
C18_Witness ==
    /\ Len(completed) >= 2
    /\ LET older == completed[Len(completed)]
           newer == completed[Len(completed) - 1]
       IN  /\ older.req < newer.req
           /\ older.ver < newer.ver
           /\ ShowsVersion(older.ver)
    /\ inflight = {}

(***************************************************************************)
(* The day count of a plan.                                                *)
(***************************************************************************)
PlantedAt == Get(cropItem).plantingDay * DayMs + Get(cropItem).plantingMs
NowAt == nowDay * DayMs

\* C21: the day count is the number of whole days from the planting date to
\* now, and 0 when now is earlier than the planting date; then the stage is
\* 0.  The count is never negative and the stage never outside 0..7.
C21_DaysClamped ==
    IsSome(cropInfo) =>
        LET d == Get(cropInfo).days
        IN  /\ d >= 0
            /\ Get(cropInfo).stageIndex \in 0..7
            /\ NowAt >= PlantedAt =>
                  (PlantedAt + d * DayMs <= NowAt /\ NowAt < PlantedAt + (d + 1) * DayMs)
            /\ NowAt < PlantedAt => (d = 0 /\ Get(cropInfo).stageIndex = 0)

\* C21 witness: a plan planted later on the very day it is looked up, where
\* the floor is -1; the list shows day 0 and the first stage.
C21_Witness ==
    /\ IsSome(cropInfo)
    /\ nowDay = Get(cropItem).plantingDay
    /\ Get(cropItem).plantingMs > 0
    /\ sincePlanting(Get(cropItem), nowDay) \div DayMs = 0 - 1
    /\ Get(cropInfo).days = 0
    /\ Get(cropInfo).stageIndex = 0

(***************************************************************************)
(* Custom ranges that end before they start.                               *)
(***************************************************************************)
Inverted ==
    /\ range = "custom"
    /\ IsSome(customStart) /\ IsSome(customEnd)
    /\ Get(customEnd) < Get(customStart)

\* C22: with the end date an earlier calendar day than the start date the
\* window's end lies before its start, and the chart has no point, whatever
\* the readings are.
C22_InvertedEmpty ==
    (ChartRendered /\ Inverted) =>
        /\ TLt(endTime(range, now, customEnd, tzOffset), startTime(range, now, customStart))
        /\ chartData = <<>>

\* C22 witness: an inverted range over two readings, one not before the
\* window's start and one not after its end.
C22_Witness ==
    /\ ChartRendered /\ Inverted
    /\ Len(data) = 2
    /\ TLe(startTime(range, now, customStart), ParsedTs(data[1]))
    /\ TLe(ParsedTs(data[2]), endTime(range, now, customEnd, tzOffset))
    /\ TLt(Zero, ParsedTs(data[2]))
    /\ chartData = <<>>

(***************************************************************************)
(* The selection across refreshes.                                         *)
(***************************************************************************)
\* C23: when a fetch is applied while a sensor is selected, the selection
\* becomes the fetched record with the same id if there is one, and stays as
\* it is otherwise.
C23_SelectionFollows ==
    [][(completed' # completed /\ IsSome(selectedSensor))
        => LET updated == find(sensors', Get(selectedSensor).id)
           IN  selectedSensor' = IF IsSome(updated) THEN updated ELSE selectedSensor]_vars

(***************************************************************************)
(* Headlines and severities.                                               *)
(***************************************************************************)
SeverityOf(headline) ==
    CASE headline \in {"Ready", "Optimal Flood", "Levels Good"} -> "good"
      [] headline \in {"Drain Field", "Drain Excess", "Wait for Rain", "Increase Level"} -> "warn"
      [] headline \in {"Stop Irrigating", "AWD Active"} -> "info"
      [] headline = "Irrigate Now" -> "critical"
      [] OTHER -> "none"

\* C24: for a stage 0..7 or no stage, the headline is one of the ten of the
\* cascade, never the placeholder "Levels Optimal" / "Monitoring...", and a
\* headline always comes with the same severity.
C24_CascadeHeadline ==
    (Rendered /\ (StageAbsent \/ StageIndex \in 0..7)) =>
        /\ advice.text \in Branches
        /\ advice.text # InitialAdvice.text
        /\ advice.subtext # InitialAdvice.subtext
        /\ advice.type = SeverityOf(advice.text)

\* C24 witness: the grain filling stage (5) between the thresholds.
C24_Witness ==
    /\ Rendered /\ ~StageAbsent /\ StageIndex = 5
    /\ level = 15
    /\ advice.text = "Levels Good" /\ advice.type = "good"

\* C25: a critical verdict only for level < 5 outside the drain stages with
\* no rain expected; outside the drain stages a good verdict only for
\* 15 <= level <= 20.
C25_SeverityBands ==
    Rendered =>
        /\ advice.type = "critical" => (level < 5 /\ ~DrainStage /\ ~RainExpected)
        /\ (advice.type = "good" /\ ~DrainStage) => (15 <= level /\ level <= 20)

\* C25 witness: the only critical verdict, one millimetre of rain under the
\* limit and the level just below 5.
C25_Witness ==
    /\ Rendered /\ advice.type = "critical"
    /\ level = 4 /\ ~DrainStage
    /\ IsSome(weather) /\ Get(weather).rainChance = 50 /\ Get(weather).rainForecast24h = 5

(***************************************************************************)
(* Where the weather is not consulted.                                     *)
(***************************************************************************)
AnyWeather == {None} \cup {Some(w) : w \in Weathers}

\* C26: for a drain stage (6, 7) at any level, and for a drying stage
\* (1, 2, 5) with 5 <= level <= 20, the verdict is the same for every
\* weather snapshot, an absent one included, in every field.
C26_WeatherIgnored ==
    (/\ Rendered /\ ~StageAbsent
     /\ \/ StageIndex \in {6, 7}
        \/ (StageIndex \in {1, 2, 5} /\ 5 <= level /\ level <= 20))
        => \A w \in AnyWeather : evaluate(level, w, cropStage) = advice

\* C26 witness: a drying stage below the soil level under rain and heat,
\* with the verdict of dry, cool weather.
C26_Witness ==
    /\ Rendered /\ ~StageAbsent /\ StageIndex = 2
    /\ level = 10
    /\ RainExpected /\ HighHeat
    /\ advice = evaluate(level, None, cropStage)
    /\ advice.text = "AWD Active"

(***************************************************************************)
(* The ranges compared.                                                    *)
(***************************************************************************)
\* The chart of the present readings and the present now under range r.
Select(r) == computeChartData(data, r, customStart, customEnd, now, tzOffset)
\* The reading a point shows.
ReadingOf(p) == <<p.time, p.level, p.ts>>
\* How many points of chart c show the reading k.
Shown(c, k) == Cardinality({i \in 1..Len(c) : ReadingOf(c[i]) = k})
Within(c1, c2) == \A i \in 1..Len(c1) : Shown(c1, ReadingOf(c1[i])) <= Shown(c2, ReadingOf(c1[i]))

\* C27: for the same readings and the same now the Last 24 h points are among
\* the Last 7 d points, those among the Last 30 d points and those among the
\* All Time points, reading for reading; a reading stamped later than now is
\* in none of the four.
C27_RangesNested ==
    ChartRendered =>
        /\ Within(Select("24h"), Select("7d"))
        /\ Within(Select("7d"), Select("30d"))
        /\ Within(Select("30d"), Select("all"))
        /\ \A k \in 1..Len(data) :
              TLt(now, ParsedTs(data[k]))
                 => \A r \in {"24h", "7d", "30d", "all"} :
                       \A i \in 1..Len(Select(r)) : Select(r)[i].time # data[k].time
        /\ range \in {"24h", "7d", "30d", "all"} => chartData = Select(range)

\* C27 witness: a reading exactly seven days old beside one stamped after
\* now: the first is in every range but Last 24 h, the second in none.
C27_Witness ==
    /\ ChartRendered /\ Len(data) = 2
    /\ ParsedTs(data[1]) = MinusDays(now, 7)
    /\ TLt(now, ParsedTs(data[2]))
    /\ Len(Select("24h")) = 0
    /\ Len(Select("7d")) = 1 /\ Len(Select("30d")) = 1 /\ Len(Select("all")) = 1
    /\ chartData = Select(range)

(***************************************************************************)
(* The chart's points against its readings.                                *)
(***************************************************************************)
\* How many readings have the time string and the level of point p.
Sources(p) ==
    Cardinality({k \in 1..Len(data) : data[k].time = p.time /\ data[k].level = p.level})
\* How many points have the time string and the level of point p.
Copies(p) ==
    Cardinality({i \in 1..Len(chartData) :
        chartData[i].time = p.time /\ chartData[i].level = p.level})
InWindowNow(r) ==
    inRange(withTs(r, tzOffset), startTime(range, now, customStart),
            endTime(range, now, customEnd, tzOffset))

\* C28: every point has the time, the parsed timestamp and the level of a
\* reading, no reading gives more than one point, every reading in the
\* window gives one (readings with the same timestamp each keep their own),
\* and the chart is never longer than the readings.
C28_FilterAndReorder ==
    ChartRendered =>
        /\ Len(chartData) <= Len(data)
        /\ \A i \in 1..Len(chartData) :
              /\ \E k \in 1..Len(data) :
                    /\ chartData[i].time = data[k].time
                    /\ chartData[i].level = data[k].level
                    /\ chartData[i].ts = ParsedTs(data[k])
              /\ Copies(chartData[i]) <= Sources(chartData[i])
        /\ Len(chartData) = Cardinality({k \in 1..Len(data) : InWindowNow(data[k])})

\* C28 witness: the same reading twice, both in the window, both shown.
C28_Witness ==
    /\ ChartRendered /\ Len(data) = 2
    /\ data[1] = data[2]
    /\ Len(chartData) = 2
    /\ chartData[1].ts = chartData[2].ts

(***************************************************************************)
(* Refreshes that fail, and the loading flag.                              *)
(***************************************************************************)
\* A loadData call ends in this step / ends here without applying a fetch.
CallEnds == Cardinality(inflight') < Cardinality(inflight)
CallFails == CallEnds /\ completed' = completed

\* C29: a loadData call whose fetch fails changes none of sensors, gateway,
\* logs, lastRefreshed and selectedSensor, neither when it starts nor when it
\* ends; when it ends, error is a non-empty message and loading is false.
C29_FailureKeepsData ==
    [][/\ completed' = completed
          => /\ sensors' = sensors /\ gateway' = gateway /\ logs' = logs
             /\ lastRefreshed' = lastRefreshed
       /\ (completed' = completed /\ inflight' # inflight) => selectedSensor' = selectedSensor
       /\ CallFails
          => /\ IsSome(error') /\ Get(error') # ""
             /\ loading' = FALSE
      ]_vars

\* C29 witness: data on display, a sensor opened, and a later refresh that
\* has failed with the message "Failed to fetch".
C29_Witness ==
    /\ Len(completed) = 1 /\ nextReq = 3 /\ inflight = {}
    /\ sensors # <<>> /\ IsSome(gateway)
    /\ IsSome(selectedSensor)
    /\ error = Some(DEFAULT_ERROR)
    /\ loading = FALSE

\* C30: every loadData call sets loading to false when it ends, whether its
\* fetch succeeded or failed; so once the initial load has started, loading
\* is false whenever no call is awaiting its fetch, however the calls
\* overlapped.
C30_LoadingSettles ==
    /\ []((appc = "mounted" /\ inflight = {}) => loading = FALSE)
    /\ [][CallEnds => loading' = FALSE]_vars

\* C30 witness: the initial load failed after a second refresh had started
\* and succeeded; nothing is in flight and the indicator is off.
C30_Witness ==
    /\ appc = "mounted" /\ inflight = {}
    /\ nextReq = 3
    /\ Len(completed) = 1 /\ completed[1].req = 2
    /\ IsSome(error)
    /\ loading = FALSE

====
